---- MODULE Spec2Model ----
(***************************************************************************)
(* Model of create_dataset.py: DatasetCreator generates, validates,        *)
(* retries, persists and merges one set of messages per BCT.               *)
(*                                                                         *)
(* Strings of the completion are sequences of one-character strings, so    *)
(* that re.split, str.isdigit and str.lstrip are computed as Python        *)
(* computes them.  Prompts are sequences of tokens (a token is a literal   *)
(* piece of text or a placeholder), so that str.replace is computed.       *)
(***************************************************************************)
EXTENDS Integers, Sequences, FiniteSets, TLC

VARIABLES
    pc,             \* position of the run inside DatasetCreator.__init__
    num_messages,   \* self.num_messages
    system_prompt,  \* self.system_prompt (template)
    user_prompt,    \* self.user_prompt (template)
    ind,            \* loop variable of generate_dataset (0-based)
    bct_prompts,    \* the pair computed by attribute_prompts(ind)
    tries,          \* retry_call's remaining tries for the current category
    response,       \* the last completion returned by the service
    bct_messages,   \* the last result of format_response
    files,          \* ./data/<prompt_file>/<No>.csv, by category id
    merged_file,    \* ./data/<prompt_file>.csv
    error,          \* the exception that left __init__, if any
    sent,           \* history: the prompt pair of the last request
    attempts,       \* history: calls of generate_bct_messages per category
    succeeded,      \* history: categories whose attempt returned normally
    outcome,        \* history: how the last attempt ended
    prev_outcome,   \* history: how the attempt before it (same category) ended
    calls,          \* history: number of requests to the completion service
    removals        \* history: files removed by the environment

vars == <<pc, num_messages, system_prompt, user_prompt, ind, bct_prompts,
          tries, response, bct_messages, files, merged_file, error, sent,
          attempts, succeeded, outcome, prev_outcome, calls, removals>>

----------------------------------------------------------------------------
(* Bounds *)

NumBcts == 2          \* rows of the taxonomy table
MaxNum == 5           \* largest num_messages of a pipeline run
MaxRemovals == 1      \* files the environment may remove during a run
MaxLen == 5           \* longest completion of the exhaustive formatting runs
MaxFormatNum == 2     \* largest num_messages of the formatting runs

(* Program constants *)

Tries == 3            \* retry_call(..., tries=3)
SampleSize == 5       \* range(5) in the sample print

----------------------------------------------------------------------------
(* Characters and strings *)

NL == "\n"
Digits == {"0", "1", "2", "3", "4", "5", "6", "7", "8", "9"}
StripChars == Digits \cup {".", " "}
Alphabet == {"1", ".", " ", "a", NL}

Strings(n) == UNION {[1..k -> Alphabet] : k \in 0..n}

isdigit(c) == c \in Digits

RECURSIVE lstrip(_)
lstrip(message) ==
    IF message # <<>> /\ Head(message) \in StripChars
    THEN lstrip(Tail(message))
    ELSE message

(* re.split('\n+', content): the pieces between the maximal runs of "\n";  *)
(* a run at the start or at the end leaves an empty piece there.           *)
RECURSIVE resplit(_, _, _, _)
resplit(content, i, cur, acc) ==
    IF i > Len(content) THEN Append(acc, cur)
    ELSE IF content[i] = NL
         THEN IF i > 1 /\ content[i-1] = NL
              THEN resplit(content, i + 1, cur, acc)
              ELSE resplit(content, i + 1, <<>>, Append(acc, cur))
         ELSE resplit(content, i + 1, Append(cur, content[i]), acc)

re_split(content) == resplit(content, 1, <<>>, <<>>)

StartsWithDigit(message) == isdigit(message[1])

FormatError == [ok |-> FALSE, messages |-> <<>>]

check_count_nocheck(messages, n) == [ok |-> TRUE, messages |-> messages]
check_count(messages, n) ==
    IF Len(messages) # n THEN FormatError
    ELSE [ok |-> TRUE, messages |-> messages]

format_response(content, n) ==
    LET messages == re_split(content)
    IN  IF Len(messages) > n
        THEN IF \E i \in 1..Len(messages) : messages[i] = <<>>
             THEN FormatError      \* message[0] raises IndexError
             ELSE LET kept == SelectSeq(messages, StartsWithDigit)
                  IN  check_count([i \in 1..Len(kept) |-> lstrip(kept[i])], n)
        ELSE check_count([i \in 1..Len(messages) |-> lstrip(messages[i])], n)

----------------------------------------------------------------------------
(* The taxonomy table self.bcts (read_bct_database); No is the category id. *)

bcts == [i \in 1..NumBcts |->
            [No         |-> ToString(i),
             Label      |-> "Label" \o ToString(i),
             Definition |-> "Definition" \o ToString(i),
             Examples   |-> "Examples" \o ToString(i)]]

Ids == {bcts[i].No : i \in 1..NumBcts}

(* The prompt files read_prompt may have parsed. *)
Templates ==
    { [system |-> <<"You are an assistant.">>,
       user   |-> <<"Generate ", "{num_messages}", " messages about ",
                    "{bct_label}", ": ", "{bct_definition}", " e.g. ",
                    "{bct_examples}">>],
      [system |-> <<"Technique ", "{bct_label}", ", write ", "{num_messages}">>,
       user   |-> <<"{bct_definition}", " ", "{bct_label}">>] }

(* str.replace(attribute, value) on a prompt *)
replace(prompt, attribute, value) ==
    [k \in 1..Len(prompt) |-> IF prompt[k] = attribute THEN value ELSE prompt[k]]

replace_all(prompt, i) ==
    replace(replace(replace(replace(prompt,
        "{num_messages}", ToString(num_messages)),
        "{bct_label}", bcts[i + 1].Label),
        "{bct_definition}", bcts[i + 1].Definition),
        "{bct_examples}", bcts[i + 1].Examples)

attribute_prompts(i) ==
    [system |-> replace_all(system_prompt, i), user |-> replace_all(user_prompt, i)]

NoPrompts == [system |-> <<>>, user |-> <<>>]

----------------------------------------------------------------------------
(* Completions of the service: an optional line of commentary, n numbered  *)
(* items, an optional trailing newline.                                    *)

Item(k, v) == <<ToString(k % 10), ".", " ", IF (k + v) % 2 = 0 THEN "a" ELSE "b">>

RECURSIVE Join(_)
Join(lines) ==
    IF lines = <<>> THEN <<>>
    ELSE IF Len(lines) = 1 THEN lines[1]
    ELSE lines[1] \o <<NL>> \o Join(Tail(lines))

Completion(n, pre, trail, v) ==
    Join((IF pre THEN << <<"S", "u", "r", "e", "!">> >> ELSE <<>>)
         \o [k \in 1..n |-> Item(k, v)])
    \o (IF trail THEN <<NL>> ELSE <<>>)

(* The service is asked for num_messages items and may return one fewer,   *)
(* exactly as many, or one more; a truncated completion stops inside or    *)
(* before its last item.                                                   *)
Contents == {Completion(n, pre, trail, 0) :
                n \in (num_messages - 1)..(num_messages + 1),
                pre \in BOOLEAN, trail \in BOOLEAN}
            \cup {Completion(num_messages, FALSE, FALSE, 1)}

Truncated == {Completion(n, FALSE, FALSE, 0) : n \in (num_messages - 1)..num_messages}

Responses == [finish_reason : {"stop"}, content : Contents]
             \cup [finish_reason : {"length"}, content : Truncated]

NoResponse == [finish_reason |-> "none", content |-> <<>>]

----------------------------------------------------------------------------
(* Files *)

Absent == [exists |-> FALSE, rows |-> <<>>]

FileKeyFirst(i) == bcts[1].No
FileKey(i) == bcts[i + 1].No

NaN == <<"NaN">>

(* DataFrame(bct_messages).to_csv(header=False, index=False) *)
to_csv(messages) == [exists |-> TRUE, rows |-> messages]

(* pd.read_csv(names=['message']) followed by df['bct'] = bct: one row per  *)
(* line of the file, an empty field is read as NaN.                         *)
read_csv(file, bct) ==
    [k \in 1..Len(file.rows) |->
        [index   |-> k - 1,
         message |-> IF file.rows[k] = <<>> THEN NaN ELSE file.rows[k],
         bct     |-> bct]]

RECURSIVE concat(_)
concat(dfs) == IF dfs = <<>> THEN <<>> ELSE Head(dfs) \o concat(Tail(dfs))

keep_index(df) == df
reset_index(df) == [k \in 1..Len(df) |-> [df[k] EXCEPT !.index = k - 1]]

NoError == [type |-> "none", bct |-> "none"]

Min(S) == CHOOSE x \in S : \A y \in S : x <= y

merge_dataset_skip(fs) ==
    LET present == SelectSeq([i \in 1..NumBcts |-> i], LAMBDA i : fs[bcts[i].No].exists)
    IN  [error |-> NoError,
         df    |-> reset_index(concat(
                     [k \in 1..Len(present) |->
                         read_csv(fs[bcts[present[k]].No], bcts[present[k]].No)]))]
merge_dataset(fs) ==
    LET missing == {i \in 1..NumBcts : ~fs[bcts[i].No].exists}
    IN  IF missing # {}
        THEN [error |-> [type |-> "FileNotFoundError", bct |-> bcts[Min(missing)].No],
              df    |-> <<>>]
        ELSE [error |-> NoError,
              df    |-> reset_index(concat(
                          [i \in 1..NumBcts |-> read_csv(fs[bcts[i].No], bcts[i].No)]))]

----------------------------------------------------------------------------
(* generate_response: the stop reason decides whether the call raises.     *)

never_incomplete(finish_reason) == FALSE
is_incomplete(finish_reason) == finish_reason # "stop"

(* for ind in range(len(self.bcts)) *)
HasNextShort(i) == i < NumBcts - 1
HasNext(i) == i < NumBcts

(* retry_call: an exception leaves when no tries remain. *)
ExhaustedLate(t) == t = -1
Exhausted(t) == t = 0

(* the sample print indexes bct_messages[0..4] *)
sample_raises(messages) == Len(messages) < SampleSize

----------------------------------------------------------------------------
(* The run: DatasetCreator.__init__ after read_bct_database and read_prompt *)

Init ==
    /\ pc = "loop"
    /\ num_messages \in (MaxNum - 2)..MaxNum
    /\ \E t \in Templates : system_prompt = t.system /\ user_prompt = t.user
    /\ ind = 0
    /\ bct_prompts = NoPrompts
    /\ tries = 0
    /\ response = NoResponse
    /\ bct_messages = FormatError
    /\ files = [id \in Ids |-> Absent]
    /\ merged_file = Absent
    /\ error = NoError
    /\ sent = NoPrompts
    /\ attempts = [i \in 0..(NumBcts - 1) |-> 0]
    /\ succeeded = {}
    /\ outcome = "none"
    /\ prev_outcome = "none"
    /\ calls = 0
    /\ removals = 0

(* generate_dataset, loop head: attribute the prompts of the next BCT and  *)
(* enter retry_call.                                                       *)
NextBct ==
    /\ pc = "loop"
    /\ HasNext(ind)
    /\ bct_prompts' = attribute_prompts(ind)
    /\ tries' = Tries
    /\ pc' = "call"
    /\ outcome' = "none"
    /\ prev_outcome' = "none"
    /\ UNCHANGED <<num_messages, system_prompt, user_prompt, ind, response,
                   bct_messages, files, merged_file, error, sent, attempts,
                   succeeded, calls, removals>>

(* One call of generate_bct_messages inside retry_call, with the service   *)
(* returning resp.                                                         *)
GenerateBctMessages(resp) ==
    /\ pc = "call"
    /\ LET incomplete == is_incomplete(resp.finish_reason)
           formatted  == format_response(resp.content, num_messages)
           result     == IF incomplete THEN "GenerationIncomplete"
                         ELSE IF ~formatted.ok THEN "ResponseFormatError"
                         ELSE IF sample_raises(formatted.messages) THEN "IndexError"
                         ELSE "ok"
       IN  /\ sent' = bct_prompts
           /\ calls' = calls + 1
           /\ attempts' = [attempts EXCEPT ![ind] = @ + 1]
           /\ response' = resp
           /\ bct_messages' = IF incomplete THEN bct_messages ELSE formatted
           /\ files' = IF ~incomplete /\ formatted.ok
                       THEN [files EXCEPT ![FileKey(ind)] = to_csv(formatted.messages)]
                       ELSE files
           /\ prev_outcome' = outcome
           /\ outcome' = result
           /\ IF result = "ok"
              THEN /\ ind' = ind + 1
                   /\ succeeded' = succeeded \cup {ind}
                   /\ pc' = "loop"
                   /\ UNCHANGED <<tries, error>>
              ELSE /\ tries' = tries - 1
                   /\ IF Exhausted(tries - 1)
                      THEN /\ pc' = "aborted"
                           /\ error' = [type |-> result, bct |-> bcts[ind + 1].No]
                      ELSE /\ pc' = "call"
                           /\ error' = error
                   /\ UNCHANGED <<ind, succeeded>>
    /\ UNCHANGED <<num_messages, system_prompt, user_prompt, bct_prompts,
                   merged_file, removals>>

(* generate_dataset returns; __init__ goes on to merge_dataset. *)
EndGenerate ==
    /\ pc = "loop"
    /\ ~HasNext(ind)
    /\ pc' = "merge"
    /\ UNCHANGED <<num_messages, system_prompt, user_prompt, ind, bct_prompts,
                   tries, response, bct_messages, files, merged_file, error,
                   sent, attempts, succeeded, outcome, prev_outcome, calls,
                   removals>>

MergeDataset ==
    /\ pc = "merge"
    /\ LET m == merge_dataset(files)
       IN  IF m.error # NoError
           THEN /\ pc' = "merge_failed"
                /\ error' = m.error
                /\ merged_file' = merged_file
           ELSE /\ pc' = "done"
                /\ error' = error
                /\ merged_file' = [exists |-> TRUE, rows |-> m.df]
    /\ UNCHANGED <<num_messages, system_prompt, user_prompt, ind, bct_prompts,
                   tries, response, bct_messages, files, sent, attempts,
                   succeeded, outcome, prev_outcome, calls, removals>>

(* The data directory is shared with the environment: a per-category file  *)
(* may be gone by the time merge_dataset reads it.  A removal during the   *)
(* generation is either undone by the category's next write or still seen  *)
(* at this point, so it is taken here.                                     *)
RemoveFile(id) ==
    /\ pc = "merge"
    /\ removals < MaxRemovals
    /\ files[id].exists
    /\ files' = [files EXCEPT ![id] = Absent]
    /\ removals' = removals + 1
    /\ UNCHANGED <<pc, num_messages, system_prompt, user_prompt, ind,
                   bct_prompts, tries, response, bct_messages, merged_file,
                   error, sent, attempts, succeeded, outcome, prev_outcome,
                   calls>>

Next ==
    \/ NextBct
    \/ \E resp \in Responses : GenerateBctMessages(resp)
    \/ EndGenerate
    \/ MergeDataset
    \/ \E id \in Ids : RemoveFile(id)

Spec == Init /\ [][Next]_vars

----------------------------------------------------------------------------
(* format_response alone, on every completion of at most MaxLen characters *)

FormatInit ==
    /\ pc = "format"
    /\ num_messages \in 1..MaxFormatNum
    /\ response \in [finish_reason : {"stop"}, content : Strings(MaxLen)]
    /\ system_prompt = <<>>
    /\ user_prompt = <<>>
    /\ ind = 0
    /\ bct_prompts = NoPrompts
    /\ tries = 0
    /\ bct_messages = FormatError
    /\ files = [id \in Ids |-> Absent]
    /\ merged_file = Absent
    /\ error = NoError
    /\ sent = NoPrompts
    /\ attempts = [i \in 0..(NumBcts - 1) |-> 0]
    /\ succeeded = {}
    /\ outcome = "none"
    /\ prev_outcome = "none"
    /\ calls = 0
    /\ removals = 0

FormatResponse ==
    /\ pc = "format"
    /\ bct_messages' = format_response(response.content, num_messages)
    /\ pc' = "formatted"
    /\ UNCHANGED <<num_messages, system_prompt, user_prompt, ind, bct_prompts,
                   tries, response, files, merged_file, error, sent, attempts,
                   succeeded, outcome, prev_outcome, calls, removals>>

FormatNext == FormatResponse

FormatSpec == FormatInit /\ [][FormatNext]_vars

----------------------------------------------------------------------------
(* Vocabulary of the properties *)

Failed(o) == o \in {"GenerationIncomplete", "ResponseFormatError", "IndexError"}

Merging == pc \in {"merge", "merge_failed", "done"}

No(i) == bcts[i + 1].No

NonEmpty(line) == line # <<>>
NonEmptyLines(content) == SelectSeq(re_split(content), NonEmpty)

DigitLine(line) == line # <<>> /\ line[1] \in Digits
DigitLines(content) == SelectSeq(re_split(content), DigitLine)

RECURSIVE DigitRun(_)
DigitRun(line) ==
    IF line # <<>> /\ Head(line) \in Digits THEN 1 + DigitRun(Tail(line)) ELSE 0

(* a numbered-list item: a number, a full stop, a space, then the text *)
NumberedItem(line) ==
    LET d == DigitRun(line)
    IN  d >= 1 /\ Len(line) >= d + 2 /\ line[d + 1] = "." /\ line[d + 2] = " "

(* the line without its numbering prefix: the number, then the full stop   *)
(* and the space if they follow                                            *)
StripNumbering(line) ==
    LET d == DigitRun(line)
        p == IF Len(line) > d /\ line[d + 1] = "." THEN d + 1 ELSE d
        q == IF Len(line) > p /\ line[p + 1] = " " THEN p + 1 ELSE p
    IN  SubSeq(line, q + 1, Len(line))

(* the number of lines format_response counts: the digit-prefixed ones     *)
(* when the completion has more lines than requested, all of them otherwise *)
FilteredCount(content) ==
    IF Len(re_split(content)) > num_messages
    THEN Len(DigitLines(content))
    ELSE Len(re_split(content))

----------------------------------------------------------------------------
(* C1: each category is attempted at most 3 times; a failed attempt is     *)
(* retried while fewer than 3 attempts were made, the 3rd failure aborts   *)
(* the run with the error, and after the abort no later category is        *)
(* attempted and merge_dataset never starts (no step follows the abort).   *)
C1_RetryThenAbort ==
    /\ [](/\ \A i \in 0..(NumBcts - 1) : attempts[i] <= 3
          /\ (pc \in {"call", "aborted"} /\ Failed(outcome)) =>
                /\ attempts[ind] < 3 => pc = "call"
                /\ attempts[ind] = 3 => pc = "aborted"
          /\ pc = "aborted" =>
                /\ attempts[ind] = 3
                /\ Failed(error.type)
                /\ error.bct = No(ind)
                /\ \A j \in (ind + 1)..(NumBcts - 1) : attempts[j] = 0
                /\ ~merged_file.exists)
    /\ [][pc # "aborted"]_vars

C1_Witness ==
    pc = "aborted" /\ ind >= 1 /\ attempts[ind] = 3 /\ outcome = "ResponseFormatError"

(* C2: for every num_messages >= 1, an attempt whose completion ended      *)
(* naturally and parsed to exactly num_messages messages succeeds as a     *)
(* whole: it is not retried and the loop moves on.                         *)
C2_ValidAttemptSucceeds ==
    (/\ pc \in {"loop", "call", "aborted"}
     /\ outcome # "none"
     /\ response.finish_reason = "stop"
     /\ bct_messages.ok
     /\ Len(bct_messages.messages) = num_messages)
    => (outcome = "ok" /\ pc = "loop" /\ (ind - 1) \in succeeded)

(* C3: for every completion whose non-empty lines are exactly num_messages *)
(* numbered-list items, format_response returns those lines, in order,     *)
(* each without its numbering prefix and otherwise unchanged.              *)
C3_NumberedListFormatted ==
    (/\ pc = "formatted"
     /\ Len(NonEmptyLines(response.content)) = num_messages
     /\ \A k \in 1..num_messages : NumberedItem(NonEmptyLines(response.content)[k]))
    => /\ bct_messages.ok
       /\ bct_messages.messages =
            [k \in 1..num_messages |-> StripNumbering(NonEmptyLines(response.content)[k])]

(* C4: for every completion with more than num_messages lines of which     *)
(* exactly num_messages begin with a digit, format_response succeeds and   *)
(* returns exactly those lines, numbering stripped, in order.              *)
C4_DigitFilterFormatted ==
    (/\ pc = "formatted"
     /\ Len(NonEmptyLines(response.content)) > num_messages
     /\ Len(DigitLines(response.content)) = num_messages)
    => /\ bct_messages.ok
       /\ bct_messages.messages =
            [k \in 1..num_messages |-> StripNumbering(DigitLines(response.content)[k])]

C6_MissingFileAbortsMerge ==
    /\ pc = "merge_failed" =>
          /\ error.type = "FileNotFoundError"
          /\ error.bct \in Ids
          /\ ~files[error.bct].exists
          /\ ~merged_file.exists
    /\ pc = "done" => \A id \in Ids : files[id].exists

C6_Witness ==
    pc = "merge_failed" /\ error.bct = No(NumBcts - 1) /\ files[No(0)].exists

(* C7: after a run in which every category succeeded, the merged table has *)
(* num_messages rows per category in taxonomy order, each row carries the  *)
(* id of the category whose file it came from and that file's message at   *)
(* the same position (an empty field read back as NaN), and the index is   *)
(* 0, 1, 2, ... without gaps.                                              *)
C7_MergedIsConcatenation ==
    pc = "done" =>
        /\ merged_file.exists
        /\ Len(merged_file.rows) = NumBcts * num_messages
        /\ \A k \in 1..Len(merged_file.rows) :
              LET i == (k - 1) \div num_messages
                  j == ((k - 1) % num_messages) + 1
                  m == files[No(i)].rows[j]
              IN  /\ merged_file.rows[k].index = k - 1
                  /\ merged_file.rows[k].bct = No(i)
                  /\ merged_file.rows[k].message = (IF m = <<>> THEN NaN ELSE m)

C7_Witness ==
    /\ pc = "done"
    /\ merged_file.rows[1].message # merged_file.rows[num_messages + 1].message
    /\ merged_file.rows[num_messages].message = NaN

(* C8: an attempt of generate_bct_messages for category i leaves the file  *)
(* of every other category as it was, whether it succeeds or fails.        *)
C8_OtherFilesUntouched ==
    [][calls' = calls + 1 =>
          \A id \in Ids \ {No(ind)} : files'[id] = files[id]]_vars

C8_Witness ==
    /\ pc = "aborted"
    /\ ind >= 1
    /\ files[No(0)].exists
    /\ Len(files[No(0)].rows) = num_messages
    /\ ~files[No(ind)].exists

(* C9: a truncated completion makes the attempt raise the                  *)
(* generation-incomplete error with no parsing and no file write; the      *)
(* attempt that follows it sends the same prompt pair; the templates never *)
(* change.                                                                 *)
C9_TruncationRetriesSamePrompt ==
    /\ [][calls' = calls + 1 =>
            /\ response'.finish_reason # "stop" =>
                  /\ outcome' = "GenerationIncomplete"
                  /\ files' = files
                  /\ bct_messages' = bct_messages
            /\ outcome = "GenerationIncomplete" => sent' = sent]_vars
    /\ [][system_prompt' = system_prompt /\ user_prompt' = user_prompt]_vars

C9_Witness ==
    /\ pc = "call"
    /\ prev_outcome = "GenerationIncomplete"
    /\ attempts[ind] = 2
    /\ sent = bct_prompts
    /\ sent # NoPrompts

(* C10: a category is attempted only after every earlier one succeeded,    *)
(* merge_dataset starts only after every category succeeded, and once it   *)
(* has started the completion service is not called again.                 *)
C10_SequentialThenMerge ==
    /\ [](/\ \A i \in 0..(NumBcts - 1) :
                attempts[i] > 0 => \A j \in 0..(i - 1) : j \in succeeded
          /\ Merging => succeeded = 0..(NumBcts - 1))
    /\ [][Merging => calls' = calls]_vars

C10_Witness ==
    pc = "merge" /\ calls > NumBcts /\ succeeded = 0..(NumBcts - 1)

====
